---- MODULE Spec2Model ----
(***************************************************************************)
(* Task orchestration of gpt-trader's backend: the in-memory task          *)
(* registry (utils.py), the single-permit gate and the runner wrappers     *)
(* (data_management/services.py), the two computations                     *)
(* (analysis_task_runner.py, news_evaluation_task_runner.py), the status   *)
(* and cancel endpoints (api.py), the live-status stream (main.py) and the *)
(* scheduler with its jobs and controls (scheduler.py).                    *)
(*                                                                         *)
(* Every Python thread is a process of the model.  A step of a process is  *)
(* one access to shared state (one attribute assignment, one dict          *)
(* operation); the interpreter may switch threads between any two of       *)
(* them.  Statements that touch only thread-local state are folded into    *)
(* the neighbouring step.                                                  *)
(***************************************************************************)
EXTENDS Integers, Sequences, FiniteSets, TLC

\* ------------------------------------------------------------------ bounds
MaxTasks == 2       \* tasks created in one run of the model
MaxStops == 1       \* cancel requests issued in one run of the model
MaxRaises == 1      \* collaborator calls that raise in one run of the model
NumCallers == 1     \* API threads serving requests concurrently
NumSymbols == 1     \* symbols a computation iterates over
StreamTasks == 1    \* tasks created in one run of the model of a stream
ApiTasks == 1       \* tasks created in one run of the model of the requests
JobTasks == 3       \* tasks created in one run of the model of the jobs
MaxFires == 4       \* triggers that fire in one run of the model
MaxRunNow == 2      \* run-now requests issued in one run of the model
MaxWait == 1        \* sleeps of a wait for a task before its time is up

TaskIds == 1..JobTasks
Callers == 1..NumCallers

\* ------------------------------------------------------- TaskStatus (enum)
PENDING == "pending"
RUNNING == "running"
COMPLETED == "completed"
FAILED == "failed"
CANCELLED == "cancelled"
Terminal == {COMPLETED, FAILED, CANCELLED}

None == "None"
\* None where the other values are numbers: Task.completed_at before the task
\* ends, LAST_COMPLETED_TASK before any task completed
NoTime == 0
NoTask == 0

VARIABLES
    TASKS,               \* utils.TASKS: task_id -> Task
    TASK_THREADS,        \* utils.TASK_THREADS: the task ids with an entry
    TASK_STOP_EVENTS,    \* utils.TASK_STOP_EVENTS: the task ids with an entry
    TASK_VERSIONS,       \* utils.TASK_VERSIONS: task_id -> int
    LAST_COMPLETED_TASK, \* utils.LAST_COMPLETED_TASK: None or a task id
    ANALYSIS_SEMAPHORE,  \* services.ANALYSIS_SEMAPHORE: permits left
    stop_event,          \* the threading.Event made for each task: is it set
    uuid,                \* task ids handed out so far by uuid4()
    now,                 \* readings of datetime.now() taken so far
    worker,              \* the wrapper thread of each task
    caller,              \* the API threads
    stops,               \* cancel requests issued so far
    raises,              \* collaborator calls that raised so far
    stream,              \* the event_generator of one live-status stream
    task_scheduler,      \* scheduler.task_scheduler: the TaskScheduler object
    jobstore,            \* the jobs of task_scheduler.scheduler
    job,                 \* the thread running each job's function
    control,             \* the API thread serving the scheduler's controls
    fired                \* triggers that fired so far

vars == <<TASKS, TASK_THREADS, TASK_STOP_EVENTS, TASK_VERSIONS,
          LAST_COMPLETED_TASK, ANALYSIS_SEMAPHORE, stop_event, uuid, now,
          worker, caller, stops, raises, stream, task_scheduler, jobstore,
          job, control, fired>>

\* the scheduler, but for the threads of its jobs
sched == <<task_scheduler, jobstore, control, fired>>

shared == <<TASKS, TASK_THREADS, TASK_STOP_EVENTS, TASK_VERSIONS,
            LAST_COMPLETED_TASK, ANALYSIS_SEMAPHORE, stop_event, now>>

\* ------------------------------------------------------------ the registry
\* Task as it would be if a new task were made RUNNING whatever status is asked
Task_StartsRunning(status, message, selected_factors) ==
    [status |-> RUNNING, progress |-> 0, message |-> message,
     completed_at |-> NoTime, selected_factors |-> selected_factors,
     result |-> None, error |-> None]

Task(status, message, selected_factors) ==
    [status |-> status, progress |-> 0, message |-> message,
     completed_at |-> NoTime, selected_factors |-> selected_factors,
     result |-> None, error |-> None]

\* dict.get(key, default)
DictGet(d, k, default) == IF k \in DOMAIN d THEN d[k] ELSE default

\* d[k] = v
DictSet(d, k, v) == [x \in DOMAIN d \cup {k} |-> IF x = k THEN v ELSE d[x]]

\* get_task(task_id) finds a task
Registered(task_id) == task_id \in DOMAIN TASKS

\* task.<field> = value, on the Task object registered under task_id
SetAttr(task_id, field, value) ==
    TASKS' = [TASKS EXCEPT ![task_id][field] = value]

\* SetCompletedAt as it would be if the time were read and not stored
SetCompletedAt_Skip(task_id) ==
    /\ now' = now + 1
    /\ UNCHANGED TASKS

\* task.completed_at = datetime.now().isoformat()
SetCompletedAt(task_id) ==
    /\ now' = now + 1
    /\ SetAttr(task_id, "completed_at", now + 1)

\* bump_task_version, first half: TASK_VERSIONS.get(task_id, 0)
BumpRead(task_id) == DictGet(TASK_VERSIONS, task_id, 0)

\* bump_task_version, second half: TASK_VERSIONS[task_id] = <value read> + 1
BumpWrite(task_id, read) ==
    TASK_VERSIONS' = DictSet(TASK_VERSIONS, task_id, read + 1)

\* ------------------------------------------------- the computations' code
\* One entry per statement that touches shared state or may raise.
\*   progress  update_task_progress(task_id, p / 100, m)
\*   check     if check_cancel(): return
\*   call      a collaborator call that returns or raises
\*   branch    control continues at one of the entries i + k, k \in alt
Instr(op, p, m, alt) == [op |-> op, p |-> p, m |-> m, alt |-> alt]
SetRunning == Instr("set_running", 0, None, {})
Bump == Instr("bump", 0, None, {})
Progress(p, m) == Instr("progress", p, m, {})
Check == Instr("check", 0, None, {})
Call == Instr("call", 0, None, {})
Branch(alt) == Instr("branch", 0, None, alt)
Complete == Instr("complete", 0, None, {})

\* fetch_history: one update_task_progress per symbol
fetch_history ==
    [i \in 1..NumSymbols |->
        Progress(20 + (50 * (i - 1)) \div NumSymbols, "fetch_history")]

\* compute_factors: progress 0.7, the factor modules, progress 0.9
compute_factors == <<Progress(70, "factors"), Call, Progress(90, "scores")>>

AnalysisHead ==
    << SetRunning, Bump, Progress(0, "start"),
       Progress(5, "top_symbols"), Check,
       Call,                                  \* top symbols: Bybit or database
       Progress(10, "save_symbols"), Check,
       Call,                                  \* save_crypto_symbol_info
       Progress(15, "select"), Check >>

AnalysisTail ==
    << Progress(70, "load"), Check,
       Progress(85, "compute"), Check >>
    \o compute_factors \o
    << Progress(95, "cleanup"), Check,
       Complete >>

\* run_analysis_task with collect_latest_data = True
AnalysisCollect ==
    AnalysisHead \o
    << Check, Progress(25, "klines") >>
    \o fetch_history \o
    << Branch({1, 3, 5}),          \* history fetched / raised / empty
       Progress(40, "save_klines"),
       Branch({3}),
       Progress(35, "fallback"),
       Call >>                     \* load_daily_data_for_analysis
    \o AnalysisTail

\* run_analysis_task with collect_latest_data = False
AnalysisStored ==
    AnalysisHead \o
    << Call >>                     \* load_daily_data_for_analysis
    \o AnalysisTail

\* run_news_evaluation_task
NewsEvaluation ==
    << SetRunning, Bump, Progress(0, "start"),
       Progress(10, "top_symbols"), Check,
       Call,                                  \* fetch_top_symbols_by_turnover
       Progress(20, "news"), Check,
       Call,                                  \* fetch_crypto_news
       Progress(30, "evaluate"), Check >>
    \o [k \in 1..(2 * NumSymbols) |->
          IF k % 2 = 1
          THEN Check
          ELSE Progress(30 + (60 * ((k \div 2) - 1)) \div NumSymbols, "symbol")]
    \o
    << Progress(95, "collect"), Check,
       Call,                                  \* sort, sunburst, summary
       Complete >>

Program(w) ==
    IF w.kind = "news" THEN NewsEvaluation
    ELSE IF w.collect THEN AnalysisCollect ELSE AnalysisStored

\* ---------------------------------------------------------------- threads
\* A wrapper thread: pc is the block it executes, i the entry of Program it
\* is at, s the step within the block or entry, tmp the version it read in
\* bump_task_version, ver_before the version when its current registry
\* operation was called.
NoWorker == [pc |-> "unstarted", i |-> 0, s |-> 0, tmp |-> 0,
             semaphore_acquired |-> FALSE, kind |-> None, collect |-> FALSE,
             ver_before |-> 0]

\* what an API thread answered last: the handler, and the HTTP status
NoResponse == [handler |-> None, status |-> None]
Response(handler, status) == [handler |-> handler, status |-> status]

\* An API thread: pc is the endpoint it serves, s the step within it, response
\* what it answered to the last get-status or cancel request it served.
IdleCaller == [pc |-> "idle", s |-> 0, task_id |-> 0, tmp |-> 0,
               kind |-> None, collect |-> FALSE, running_tasks |-> FALSE,
               response |-> NoResponse]

\* no TaskResult: nothing read so far, nothing emitted so far
NoSnapshot == [status |-> None, progress |-> 0, message |-> None,
               completed_at |-> NoTime, result |-> None, error |-> None]

\* the TaskResult of the task as it is in the registry now
Snapshot(task_id) ==
    [status |-> TASKS[task_id].status, progress |-> TASKS[task_id].progress,
     message |-> TASKS[task_id].message,
     completed_at |-> TASKS[task_id].completed_at,
     result |-> TASKS[task_id].result, error |-> TASKS[task_id].error]

\* event_generator before the first request: pc is the statement it is at, s
\* the step within it, update the TaskResult being built, emitted the last
\* TaskResult it yielded
NoStream == [pc |-> "unopened", s |-> 0, task_id |-> NoTask,
             last_version |-> -1, current_version |-> 0,
             update |-> NoSnapshot, emitted |-> NoSnapshot]

\* TaskScheduler.__init__
NewTaskScheduler ==
    [is_running |-> FALSE, enabled |-> TRUE, last_run |-> NoTime,
     current_analysis_task_id |-> NoTask, current_news_task_id |-> NoTask,
     current_candlestick_task_id |-> NoTask,
     current_timeframe_review_task_id |-> NoTask]

\* the ids under which jobs are added to the scheduler
JobIds == {"daily_crypto_analysis", "candlestick_strategy",
           "daily_timeframe_review", "startup_test_position",
           "manual_daily_run"}

\* no thread is running the job's function; in a running one pc is the
\* statement it is at, s the step within it, the rest are locals of
\* _run_daily_tasks, of generate_buy_sell_signals_from_latest and of
\* _wait_for_task_completion (elapsed: the sleeps since start_time)
NoJob == [pc |-> "idle", s |-> 0, analysis_task_id |-> NoTask,
          news_task_id |-> NoTask, task |-> NoTask, elapsed |-> 0]

\* the slots stop_current_tasks goes through, in its order
Slots == <<"current_analysis_task_id", "current_news_task_id",
           "current_candlestick_task_id", "current_timeframe_review_task_id">>

\* no control request is being served: k is the slot stop_current_tasks is
\* at, s the step within it, result what the last stop_current_tasks
\* returned, run_now the run-now requests so far
NoControl == [pc |-> "idle", k |-> 0, s |-> 0, stopped_any |-> FALSE,
              result |-> None, run_now |-> 0]

Init ==
    /\ TASKS = <<>>
    /\ TASK_THREADS = {}
    /\ TASK_STOP_EVENTS = {}
    /\ TASK_VERSIONS = <<>>
    /\ LAST_COMPLETED_TASK = NoTask
    /\ ANALYSIS_SEMAPHORE = 1
    /\ stop_event = [t \in TaskIds |-> FALSE]
    /\ uuid = 0
    /\ now = 0
    /\ worker = [t \in TaskIds |-> NoWorker]
    /\ caller = [c \in Callers |-> IdleCaller]
    /\ stops = 0
    /\ raises = 0
    /\ stream = NoStream
    /\ task_scheduler = NewTaskScheduler
    /\ jobstore = <<>>
    /\ job = [id \in JobIds |-> NoJob]
    /\ control = NoControl
    /\ fired = 0

W(t) == worker[t]
Cur(t) == Program(W(t))[W(t).i]
At(t, op) == W(t).pc = "run" /\ Cur(t).op = op

Version(t) == DictGet(TASK_VERSIONS, t, 0)

\* get_last_completed_task()
get_last_completed_task == LAST_COMPLETED_TASK

\* the thread goes on to step s of the block or entry it is in
Step(t, s) == worker' = [worker EXCEPT ![t].s = s]
\* the same, at the start of a registry operation
StepOp(t, s) ==
    worker' = [worker EXCEPT ![t].s = s, ![t].ver_before = Version(t)]
\* the thread goes on to the next entry of its program (tmp and ver_before are dead there)
Advance(t) ==
    worker' = [worker EXCEPT ![t].i = @ + 1, ![t].s = 1, ![t].tmp = 0,
                             ![t].ver_before = 0]
\* the thread goes to another block (tmp and ver_before are dead there)
Goto(t, pc) ==
    worker' = [worker EXCEPT ![t].pc = pc, ![t].s = 1, ![t].tmp = 0,
                             ![t].ver_before = 0]

\* ------------------------------------------------ the wrapper: gate, entry
\* WrapperAcquire as it would be if acquire did not wait for a permit
WrapperAcquire_NoWait(t) ==
    /\ W(t).pc = "acquire"
    /\ ANALYSIS_SEMAPHORE' = 0
    /\ worker' = [worker EXCEPT ![t].pc = "run", ![t].i = 1, ![t].s = 1,
                                ![t].semaphore_acquired = TRUE]
    /\ UNCHANGED <<TASKS, TASK_THREADS, TASK_STOP_EVENTS, TASK_VERSIONS,
                   LAST_COMPLETED_TASK, stop_event, uuid, now, caller, stops,
                   raises, stream, sched, job>>

\* ANALYSIS_SEMAPHORE.acquire(timeout=5) returns True
WrapperAcquire(t) ==
    /\ W(t).pc = "acquire"
    /\ ANALYSIS_SEMAPHORE > 0
    /\ ANALYSIS_SEMAPHORE' = ANALYSIS_SEMAPHORE - 1
    /\ worker' = [worker EXCEPT ![t].pc = "run", ![t].i = 1, ![t].s = 1,
                                ![t].semaphore_acquired = TRUE]
    /\ UNCHANGED <<TASKS, TASK_THREADS, TASK_STOP_EVENTS, TASK_VERSIONS,
                   LAST_COMPLETED_TASK, stop_event, uuid, now, caller, stops, raises,
                   stream, sched, job>>

\* WrapperAcquireTimeout as it would be if acquire could give up while a
\* permit is free
WrapperAcquireTimeout_Early(t) ==
    /\ W(t).pc = "acquire"
    /\ Goto(t, "timeout")
    /\ UNCHANGED <<shared, uuid, caller, stops, raises, stream, sched, job>>

\* ANALYSIS_SEMAPHORE.acquire(timeout=5) returns False: no permit for 5 s
WrapperAcquireTimeout(t) ==
    /\ W(t).pc = "acquire"
    /\ ANALYSIS_SEMAPHORE = 0
    /\ Goto(t, "timeout")
    /\ UNCHANGED <<shared, uuid, caller, stops, raises, stream, sched, job>>

\* the wrapper's gate-timeout branch
WrapperTimeout(t) ==
    /\ W(t).pc = "timeout"
    /\ CASE W(t).s = 1 ->
              /\ SetAttr(t, "status", FAILED)
              /\ StepOp(t, 2)
              /\ UNCHANGED <<TASK_VERSIONS, now>>
         [] W(t).s = 2 ->
              /\ SetAttr(t, "message", "contention")
              /\ Step(t, 3)
              /\ UNCHANGED <<TASK_VERSIONS, now>>
         [] W(t).s = 3 ->
              /\ SetCompletedAt(t)
              /\ Step(t, 4)
              /\ UNCHANGED TASK_VERSIONS
         [] W(t).s = 4 ->
              /\ worker' = [worker EXCEPT ![t].tmp = BumpRead(t), ![t].s = 5]
              /\ UNCHANGED <<TASKS, TASK_VERSIONS, now>>
         [] W(t).s = 5 ->
              /\ BumpWrite(t, W(t).tmp)
              /\ Goto(t, "finally")
              /\ UNCHANGED <<TASKS, now>>
    /\ UNCHANGED <<TASK_THREADS, TASK_STOP_EVENTS, LAST_COMPLETED_TASK,
                   ANALYSIS_SEMAPHORE, stop_event, uuid, caller, stops, raises,
                   stream, sched, job>>

\* ------------------------------------------------------- the computations
\* task.status = TaskStatus.RUNNING
RunSetRunning(t) ==
    /\ At(t, "set_running")
    /\ SetAttr(t, "status", RUNNING)
    /\ Advance(t)
    /\ UNCHANGED <<TASK_THREADS, TASK_STOP_EVENTS, TASK_VERSIONS,
                   LAST_COMPLETED_TASK, ANALYSIS_SEMAPHORE, stop_event, uuid,
                   now, caller, stops, raises, stream, sched, job>>

\* bump_task_version(task_id), called by the computation
RunBump(t) ==
    /\ At(t, "bump")
    /\ CASE W(t).s = 1 ->
              /\ worker' = [worker EXCEPT ![t].tmp = BumpRead(t), ![t].s = 2]
              /\ UNCHANGED TASK_VERSIONS
         [] W(t).s = 2 ->
              /\ BumpWrite(t, W(t).tmp)
              /\ Advance(t)
    /\ UNCHANGED <<TASKS, TASK_THREADS, TASK_STOP_EVENTS, LAST_COMPLETED_TASK,
                   ANALYSIS_SEMAPHORE, stop_event, uuid, now, caller, stops, raises,
                   stream, sched, job>>

\* The two attribute writes are one step: no other thread reads progress, and
\* every value of the pair (progress, message) that the two writes pass through
\* is also reached with the cancel request's message written after them.
update_task_progress(t) ==
    /\ At(t, "progress")
    /\ Registered(t)
    /\ CASE W(t).s = 1 ->
              /\ TASKS' = [TASKS EXCEPT ![t].progress = Cur(t).p,
                                        ![t].message = Cur(t).m]
              /\ StepOp(t, 2)
              /\ UNCHANGED TASK_VERSIONS
         [] W(t).s = 2 ->
              /\ worker' = [worker EXCEPT ![t].tmp = BumpRead(t), ![t].s = 3]
              /\ UNCHANGED <<TASKS, TASK_VERSIONS>>
         [] W(t).s = 3 ->
              /\ BumpWrite(t, W(t).tmp)
              /\ Advance(t)
              /\ UNCHANGED TASKS
    /\ UNCHANGED <<TASK_THREADS, TASK_STOP_EVENTS, LAST_COMPLETED_TASK,
                   ANALYSIS_SEMAPHORE, stop_event, uuid, now, caller, stops,
                   raises, stream, sched, job>>

\* check_cancel(); the computation returns when it answers True
check_cancel(t) ==
    /\ At(t, "check")
    /\ CASE W(t).s = 1 /\ ~stop_event[t] ->
              /\ Advance(t)
              /\ UNCHANGED <<TASKS, TASK_VERSIONS, now>>
         [] W(t).s = 1 /\ stop_event[t] ->
              /\ SetAttr(t, "status", CANCELLED)
              /\ StepOp(t, 2)
              /\ UNCHANGED <<TASK_VERSIONS, now>>
         [] W(t).s = 2 ->
              /\ SetAttr(t, "message", "cancelled")
              /\ Step(t, 3)
              /\ UNCHANGED <<TASK_VERSIONS, now>>
         [] W(t).s = 3 ->
              /\ SetCompletedAt(t)
              /\ Step(t, 4)
              /\ UNCHANGED TASK_VERSIONS
         [] W(t).s = 4 ->
              /\ worker' = [worker EXCEPT ![t].tmp = BumpRead(t), ![t].s = 5]
              /\ UNCHANGED <<TASKS, TASK_VERSIONS, now>>
         [] W(t).s = 5 ->
              /\ BumpWrite(t, W(t).tmp)
              /\ Goto(t, "finally")
              /\ UNCHANGED <<TASKS, now>>
    /\ UNCHANGED <<TASK_THREADS, TASK_STOP_EVENTS, LAST_COMPLETED_TASK,
                   ANALYSIS_SEMAPHORE, stop_event, uuid, caller, stops, raises,
                   stream, sched, job>>

\* a collaborator call returns
RunCallReturns(t) ==
    /\ At(t, "call")
    /\ Advance(t)
    /\ UNCHANGED <<shared, uuid, caller, stops, raises, stream, sched, job>>

\* a collaborator call raises: control passes to the computation's handler
RunCallRaises(t) ==
    /\ At(t, "call")
    /\ raises < MaxRaises
    /\ raises' = raises + 1
    /\ Goto(t, "except")
    /\ UNCHANGED <<shared, uuid, caller, stops, stream, sched, job>>

RunBranch(t) ==
    /\ At(t, "branch")
    /\ \E k \in Cur(t).alt :
          worker' = [worker EXCEPT ![t].i = @ + k, ![t].s = 1]
    /\ UNCHANGED <<shared, uuid, caller, stops, raises, stream, sched, job>>

\* the computation's last block: the task is completed
RunComplete(t) ==
    /\ At(t, "complete")
    /\ CASE W(t).s = 1 ->
              /\ SetAttr(t, "status", COMPLETED)
              /\ StepOp(t, 2)
              /\ UNCHANGED <<TASK_VERSIONS, LAST_COMPLETED_TASK, now>>
         [] W(t).s = 2 ->
              /\ SetAttr(t, "progress", 100)
              /\ Step(t, 3)
              /\ UNCHANGED <<TASK_VERSIONS, LAST_COMPLETED_TASK, now>>
         [] W(t).s = 3 ->
              /\ SetAttr(t, "message", "completed")
              /\ Step(t, 4)
              /\ UNCHANGED <<TASK_VERSIONS, LAST_COMPLETED_TASK, now>>
         [] W(t).s = 4 ->
              /\ SetCompletedAt(t)
              /\ Step(t, 5)
              /\ UNCHANGED <<TASK_VERSIONS, LAST_COMPLETED_TASK>>
         [] W(t).s = 5 ->
              /\ SetAttr(t, "result", "result")
              /\ Step(t, 6)
              /\ UNCHANGED <<TASK_VERSIONS, LAST_COMPLETED_TASK, now>>
         [] W(t).s = 6 ->
              /\ LAST_COMPLETED_TASK' = t
              /\ Step(t, 7)
              /\ UNCHANGED <<TASKS, TASK_VERSIONS, now>>
         [] W(t).s = 7 ->
              /\ worker' = [worker EXCEPT ![t].tmp = BumpRead(t), ![t].s = 8]
              /\ UNCHANGED <<TASKS, TASK_VERSIONS, LAST_COMPLETED_TASK, now>>
         [] W(t).s = 8 ->
              /\ BumpWrite(t, W(t).tmp)
              /\ Goto(t, "finally")
              /\ UNCHANGED <<TASKS, LAST_COMPLETED_TASK, now>>
    /\ UNCHANGED <<TASK_THREADS, TASK_STOP_EVENTS, ANALYSIS_SEMAPHORE,
                   stop_event, uuid, caller, stops, raises,
                   stream, sched, job>>

\* the computation's own handler: except Exception as e
RunExcept(t) ==
    /\ W(t).pc = "except"
    /\ CASE W(t).s = 1 ->
              /\ SetAttr(t, "status", FAILED)
              /\ StepOp(t, 2)
              /\ UNCHANGED <<TASK_VERSIONS, now>>
         [] W(t).s = 2 ->
              /\ SetAttr(t, "message", "failed")
              /\ Step(t, 3)
              /\ UNCHANGED <<TASK_VERSIONS, now>>
         [] W(t).s = 3 ->
              /\ SetCompletedAt(t)
              /\ Step(t, 4)
              /\ UNCHANGED TASK_VERSIONS
         [] W(t).s = 4 ->
              /\ SetAttr(t, "error", "error")
              /\ Step(t, 5)
              /\ UNCHANGED <<TASK_VERSIONS, now>>
         [] W(t).s = 5 ->
              /\ worker' = [worker EXCEPT ![t].tmp = BumpRead(t), ![t].s = 6]
              /\ UNCHANGED <<TASKS, TASK_VERSIONS, now>>
         [] W(t).s = 6 ->
              /\ BumpWrite(t, W(t).tmp)
              /\ Goto(t, "finally")
              /\ UNCHANGED <<TASKS, now>>
    /\ UNCHANGED <<TASK_THREADS, TASK_STOP_EVENTS, LAST_COMPLETED_TASK,
                   ANALYSIS_SEMAPHORE, stop_event, uuid, caller, stops, raises,
                   stream, sched, job>>

\* RunExceptRaises as it would be if the handler could also raise after it
\* has written completed_at
RunExceptRaises_Late(t) ==
    /\ W(t).pc = "except"
    /\ W(t).s \in {1, 4}
    /\ Goto(t, "handle_task_error")
    /\ UNCHANGED <<shared, uuid, caller, stops, raises, stream, sched, job>>

\* the handler's first statement raises: the exception leaves the computation
\* and reaches the wrapper's except clause
RunExceptRaises(t) ==
    /\ W(t).pc = "except"
    /\ W(t).s = 1
    /\ Goto(t, "handle_task_error")
    /\ UNCHANGED <<shared, uuid, caller, stops, raises, stream, sched, job>>

\* ------------------------------------------- the wrapper: except, finally
handle_task_error(t) ==
    /\ W(t).pc = "handle_task_error"
    /\ CASE W(t).s = 1 ->
              /\ SetAttr(t, "status", FAILED)
              /\ StepOp(t, 2)
              /\ UNCHANGED now
         [] W(t).s = 2 ->
              /\ SetAttr(t, "error", "error")
              /\ Step(t, 3)
              /\ UNCHANGED now
         [] W(t).s = 3 ->
              /\ SetAttr(t, "message", "failed")
              /\ Step(t, 4)
              /\ UNCHANGED now
         [] W(t).s = 4 ->
              /\ SetCompletedAt(t)
              /\ Goto(t, "finally")
    /\ UNCHANGED <<TASK_THREADS, TASK_STOP_EVENTS, TASK_VERSIONS,
                   LAST_COMPLETED_TASK, ANALYSIS_SEMAPHORE, stop_event, uuid,
                   caller, stops, raises, stream, sched, job>>

\* WrapperFinally as it would be if it released the permit without looking at
\* semaphore_acquired
WrapperFinally_AlwaysRelease(t) ==
    /\ W(t).pc = "finally"
    /\ CASE W(t).s = 1 ->
              /\ ANALYSIS_SEMAPHORE' = ANALYSIS_SEMAPHORE + 1
              /\ Step(t, 2)
              /\ UNCHANGED <<TASK_THREADS, TASK_STOP_EVENTS>>
         [] W(t).s = 2 ->
              /\ TASK_THREADS' = TASK_THREADS \ {t}
              /\ TASK_STOP_EVENTS' = TASK_STOP_EVENTS \ {t}
              /\ worker' = [worker EXCEPT ![t].pc = "done", ![t].s = 0,
                                          ![t].i = 0, ![t].collect = FALSE]
              /\ UNCHANGED ANALYSIS_SEMAPHORE
    /\ UNCHANGED <<TASKS, TASK_VERSIONS, LAST_COMPLETED_TASK, stop_event,
                   uuid, now, caller, stops, raises, stream, sched, job>>

\* The two pops are one step: no code reads TASK_THREADS.
WrapperFinally(t) ==
    /\ W(t).pc = "finally"
    /\ CASE W(t).s = 1 ->
              /\ ANALYSIS_SEMAPHORE' =
                    IF W(t).semaphore_acquired
                    THEN ANALYSIS_SEMAPHORE + 1 ELSE ANALYSIS_SEMAPHORE
              /\ Step(t, 2)
              /\ UNCHANGED <<TASK_THREADS, TASK_STOP_EVENTS>>
         [] W(t).s = 2 ->
              /\ TASK_THREADS' = TASK_THREADS \ {t}
              /\ TASK_STOP_EVENTS' = TASK_STOP_EVENTS \ {t}
              /\ worker' = [worker EXCEPT ![t].pc = "done", ![t].s = 0,
                                          ![t].i = 0, ![t].collect = FALSE]
              /\ UNCHANGED ANALYSIS_SEMAPHORE
    /\ UNCHANGED <<TASKS, TASK_VERSIONS, LAST_COMPLETED_TASK, stop_event,
                   uuid, now, caller, stops, raises, stream, sched, job>>

\* --------------------------------------------------------- task creation
C(c) == caller[c]

\* create_analysis_task / create_news_evaluation_task, up to uuid4(): the
\* scan of the registry for running tasks and the new task's id
CreateBegin(c, kind, collect) ==
    /\ C(c).pc = "idle"
    /\ uuid + 1 \in TaskIds
    /\ uuid' = uuid + 1
    /\ caller' = [caller EXCEPT ![c] =
          [IdleCaller EXCEPT
              !.pc = "create", !.s = 1, !.task_id = uuid + 1,
              !.kind = kind, !.collect = collect,
              !.running_tasks =
                  (\E t \in DOMAIN TASKS : TASKS[t].status = RUNNING)]]
    /\ UNCHANGED <<shared, worker, stops, raises, stream, sched>>

\* the rest of it: add_task, the stop event, the thread, the return; the new
\* thread runs from thread.start() on, before the creator has returned
CreateTask(c) ==
    /\ C(c).pc = "create"
    /\ LET id == C(c).task_id IN
       CASE C(c).s = 1 ->
              /\ TASKS' = DictSet(TASKS, id,
                    Task(PENDING,
                         IF C(c).running_tasks THEN "waiting" ELSE "starting",
                         IF C(c).kind = "news" THEN None ELSE "factors"))
              /\ caller' = [caller EXCEPT ![c].s = 2]
              /\ UNCHANGED <<TASK_STOP_EVENTS, TASK_THREADS, worker>>
         [] C(c).s = 2 ->
              /\ TASK_STOP_EVENTS' = TASK_STOP_EVENTS \cup {id}
              /\ caller' = [caller EXCEPT ![c].s = 3]
              /\ UNCHANGED <<TASKS, TASK_THREADS, worker>>
         [] C(c).s = 3 ->
              /\ TASK_THREADS' = TASK_THREADS \cup {id}
              /\ worker' = [worker EXCEPT ![id] =
                    [NoWorker EXCEPT !.pc = "acquire", !.kind = C(c).kind,
                                     !.collect = C(c).collect]]
              /\ caller' = [caller EXCEPT ![c].s = 4]
              /\ UNCHANGED <<TASKS, TASK_STOP_EVENTS>>
         [] C(c).s = 4 ->                  \* return task_id
              /\ caller' = [caller EXCEPT ![c] = IdleCaller]
              /\ UNCHANGED <<TASKS, TASK_STOP_EVENTS, TASK_THREADS, worker>>
    /\ UNCHANGED <<TASK_VERSIONS, LAST_COMPLETED_TASK, ANALYSIS_SEMAPHORE,
                   stop_event, uuid, now, stops, raises, stream, sched>>

\* collect_latest_data as requested: the default of RunRequest, which is also
\* what the scheduler passes
CollectLatestData == {TRUE}

create_analysis_task(c) ==
    \E collect \in CollectLatestData : CreateBegin(c, "analysis", collect)

create_news_evaluation_task(c) == CreateBegin(c, "news", FALSE)

\* ------------------------------------------------------- the cancel request
\* stop_task_universal(task_id), up to the lookup of the stop event: HTTP 404,
\* HTTP 400, or the event is found.  get_task and the lookup are one step: a
\* task once registered is never removed, so get_task answers the same
\* wherever it is placed before the lookup.
StopBegin(c, task_id) ==
    /\ C(c).pc = "idle"
    /\ stops < MaxStops
    /\ stops' = stops + 1
    /\ caller' = [caller EXCEPT ![c] =
          IF ~Registered(task_id)
          THEN [IdleCaller EXCEPT
                   !.response = Response("stop_task_universal", "404")]
          ELSE IF task_id \notin TASK_STOP_EVENTS
          THEN [IdleCaller EXCEPT
                   !.response = Response("stop_task_universal", "400")]
          ELSE [IdleCaller EXCEPT !.pc = "stop", !.s = 3,
                                  !.task_id = task_id]]
    /\ UNCHANGED <<shared, uuid, worker, raises, stream, sched, job>>

\* stop_task_universal as it would be if the request itself marked the task
\* cancelled
stop_task_universal_Cancels(c) ==
    /\ C(c).pc = "stop"
    /\ LET id == C(c).task_id IN
       CASE C(c).s = 3 ->
              /\ stop_event' = [stop_event EXCEPT ![id] = TRUE]
              /\ caller' = [caller EXCEPT ![c].s = 4]
              /\ UNCHANGED <<TASKS, TASK_VERSIONS>>
         [] C(c).s = 4 ->
              /\ SetAttr(id, "status", CANCELLED)
              /\ caller' = [caller EXCEPT ![c].s = 5]
              /\ UNCHANGED <<TASK_VERSIONS, stop_event>>
         [] C(c).s = 5 ->
              /\ SetAttr(id, "message", "stopping")
              /\ caller' = [caller EXCEPT ![c].s = 6]
              /\ UNCHANGED <<TASK_VERSIONS, stop_event>>
         [] C(c).s = 6 ->
              /\ caller' = [caller EXCEPT ![c].tmp = BumpRead(id), ![c].s = 7]
              /\ UNCHANGED <<TASKS, TASK_VERSIONS, stop_event>>
         [] C(c).s = 7 ->
              /\ BumpWrite(id, C(c).tmp)
              /\ caller' = [caller EXCEPT ![c] =
                    [IdleCaller EXCEPT
                        !.response = Response("stop_task_universal", "200")]]
              /\ UNCHANGED <<TASKS, stop_event>>
    /\ UNCHANGED <<TASK_THREADS, TASK_STOP_EVENTS, LAST_COMPLETED_TASK,
                   ANALYSIS_SEMAPHORE, uuid, now, worker, stops, raises,
                   stream, sched, job>>

\* the rest of stop_task_universal
stop_task_universal(c) ==
    /\ C(c).pc = "stop"
    /\ LET id == C(c).task_id IN
       CASE C(c).s = 3 ->
              /\ stop_event' = [stop_event EXCEPT ![id] = TRUE]
              /\ caller' = [caller EXCEPT ![c].s = 4]
              /\ UNCHANGED <<TASKS, TASK_VERSIONS>>
         [] C(c).s = 4 ->
              /\ SetAttr(id, "status", RUNNING)
              /\ caller' = [caller EXCEPT ![c].s = 5]
              /\ UNCHANGED <<TASK_VERSIONS, stop_event>>
         [] C(c).s = 5 ->
              /\ SetAttr(id, "message", "stopping")
              /\ caller' = [caller EXCEPT ![c].s = 6]
              /\ UNCHANGED <<TASK_VERSIONS, stop_event>>
         [] C(c).s = 6 ->
              /\ caller' = [caller EXCEPT ![c].tmp = BumpRead(id), ![c].s = 7]
              /\ UNCHANGED <<TASKS, TASK_VERSIONS, stop_event>>
         [] C(c).s = 7 ->
              /\ BumpWrite(id, C(c).tmp)
              /\ caller' = [caller EXCEPT ![c] =
                    [IdleCaller EXCEPT
                        !.response = Response("stop_task_universal", "200")]]
              /\ UNCHANGED <<TASKS, stop_event>>
    /\ UNCHANGED <<TASK_THREADS, TASK_STOP_EVENTS, LAST_COMPLETED_TASK,
                   ANALYSIS_SEMAPHORE, uuid, now, worker, stops, raises,
                   stream, sched, job>>

\* ----------------------------------------------------- the status request
\* get_task_status_universal as it would be if it gave a task it does not
\* find a version, as the live-status stream does
get_task_status_universal_SetDefault(c, task_id) ==
    /\ C(c).pc = "idle"
    /\ caller' = [caller EXCEPT ![c] =
          [IdleCaller EXCEPT !.response =
              Response("get_task_status_universal",
                       IF Registered(task_id) THEN "200" ELSE "404")]]
    /\ TASK_VERSIONS' = DictSet(TASK_VERSIONS, task_id, Version(task_id))
    /\ UNCHANGED <<TASKS, TASK_THREADS, TASK_STOP_EVENTS, LAST_COMPLETED_TASK,
                   ANALYSIS_SEMAPHORE, stop_event, now, uuid, worker, stops,
                   raises, stream, sched, job>>

\* get_task_status_universal(task_id): HTTP 404, or the task's TaskResult
get_task_status_universal(c, task_id) ==
    /\ C(c).pc = "idle"
    /\ caller' = [caller EXCEPT ![c] =
          [IdleCaller EXCEPT !.response =
              Response("get_task_status_universal",
                       IF Registered(task_id) THEN "200" ELSE "404")]]
    /\ UNCHANGED <<shared, uuid, worker, stops, raises, stream, sched, job>>

\* ------------------------------------------------- the live-status stream
\* everything but the stream
system == <<TASKS, TASK_THREADS, TASK_STOP_EVENTS, LAST_COMPLETED_TASK,
            ANALYSIS_SEMAPHORE, stop_event, uuid, now, worker, caller, stops,
            raises, sched, job>>

\* GET /task/{task_id}/events: event_generator starts, task = get_task(task_id)
StreamOpen(task_id) ==
    /\ stream.pc = "unopened"
    /\ stream' = [stream EXCEPT
          !.task_id = task_id,
          !.pc = IF Registered(task_id) THEN "initial" ELSE "sleep",
          !.s = IF Registered(task_id) THEN 1 ELSE 0]
    /\ UNCHANGED <<system, TASK_VERSIONS>>

\* the yield of a TaskResult and, in the loop, last_version = current_version
StreamYield(update) ==
    stream' = [stream EXCEPT
        !.update = NoSnapshot, !.emitted = update, !.s = 0,
        !.pc = IF stream.pc = "initial" THEN "init_version" ELSE "check",
        !.last_version = IF stream.pc = "initial" THEN @
                         ELSE stream.current_version,
        !.current_version = 0]

\* TaskResult(status=task.status, ..., error=task.error) and the yield.  The
\* attributes up to task.result are loaded with no call in between, so no
\* other thread runs between these loads; task.result.get("extended"), called
\* when there is a result, lets other threads run before task.error is loaded.
StreamRead ==
    /\ stream.pc \in {"initial", "update"}
    /\ CASE stream.s = 1 ->
              LET read == [Snapshot(stream.task_id) EXCEPT !.error = None] IN
              IF read.result = None
              THEN StreamYield(Snapshot(stream.task_id))
              ELSE stream' = [stream EXCEPT !.update = read, !.s = 2]
         [] stream.s = 2 ->
              StreamYield([stream.update EXCEPT
                              !.error = TASKS[stream.task_id].error])
    /\ UNCHANGED <<system, TASK_VERSIONS>>

\* last_version = TASK_VERSIONS.get(task_id, 0), after the initial yield
StreamInitVersion ==
    /\ stream.pc = "init_version"
    /\ stream' = [stream EXCEPT !.last_version = Version(stream.task_id),
                                !.pc = "sleep"]
    /\ UNCHANGED <<system, TASK_VERSIONS>>

\* await asyncio.sleep(0.5) returns; if task_id not in TASK_VERSIONS
StreamPoll ==
    /\ stream.pc = "sleep"
    /\ stream' = [stream EXCEPT
          !.pc = IF stream.task_id \in DOMAIN TASK_VERSIONS
                 THEN "version" ELSE "setdefault",
          !.s = IF stream.task_id \in DOMAIN TASK_VERSIONS THEN 0 ELSE 1]
    /\ UNCHANGED <<system, TASK_VERSIONS>>

\* TASK_VERSIONS[task_id] = TASK_VERSIONS.get(task_id, 0): the read, the store
StreamSetDefault ==
    /\ stream.pc = "setdefault"
    /\ CASE stream.s = 1 ->
              /\ stream' = [stream EXCEPT
                    !.current_version = Version(stream.task_id), !.s = 2]
              /\ UNCHANGED TASK_VERSIONS
         [] stream.s = 2 ->
              /\ TASK_VERSIONS' = DictSet(TASK_VERSIONS, stream.task_id,
                                          stream.current_version)
              /\ stream' = [stream EXCEPT !.pc = "version", !.s = 0,
                                          !.current_version = 0]
    /\ UNCHANGED system

\* StreamVersion without the break on a task that is not found
StreamVersion_NoBreak ==
    /\ stream.pc = "version"
    /\ LET v == Version(stream.task_id) IN
       stream' = [stream EXCEPT
          !.current_version = IF v # stream.last_version
                                 /\ Registered(stream.task_id) THEN v ELSE 0,
          !.pc = IF v # stream.last_version /\ Registered(stream.task_id)
                 THEN "update" ELSE "check",
          !.s = IF v # stream.last_version /\ Registered(stream.task_id)
                THEN 1 ELSE 0]
    /\ UNCHANGED <<system, TASK_VERSIONS>>

\* current_version = TASK_VERSIONS.get(task_id, 0); if it differs from
\* last_version: task = get_task(task_id), break when there is none
StreamVersion ==
    /\ stream.pc = "version"
    /\ LET v == Version(stream.task_id) IN
       stream' = [stream EXCEPT
          !.current_version = IF v # stream.last_version
                                 /\ Registered(stream.task_id) THEN v ELSE 0,
          !.pc = IF v = stream.last_version THEN "check"
                 ELSE IF Registered(stream.task_id) THEN "update"
                 ELSE "not_found",
          !.s = IF v # stream.last_version /\ Registered(stream.task_id)
                THEN 1 ELSE 0]
    /\ UNCHANGED <<system, TASK_VERSIONS>>

\* task = get_task(task_id); break when task.status is COMPLETED, FAILED or
\* CANCELLED
StreamCheck ==
    /\ stream.pc = "check"
    /\ stream' = [stream EXCEPT
          !.pc = IF Registered(stream.task_id)
                    /\ TASKS[stream.task_id].status \in Terminal
                 THEN "closed" ELSE "sleep"]
    /\ UNCHANGED <<system, TASK_VERSIONS>>

\* A client that creates up to StreamTasks tasks, opens one stream and sends
\* no cancel request: the gate is never contended, so the wrapper never takes
\* its timeout branch
NextStream ==
    \/ \E task_id \in 1..StreamTasks : StreamOpen(task_id)
    \/ StreamRead
    \/ StreamInitVersion
    \/ StreamPoll
    \/ StreamSetDefault
    \/ StreamVersion
    \/ StreamCheck
    \/ \E c \in Callers :
          \/ uuid < StreamTasks /\ create_analysis_task(c) /\ UNCHANGED job
          \/ uuid < StreamTasks /\ create_news_evaluation_task(c)
                 /\ UNCHANGED job
          \/ CreateTask(c) /\ UNCHANGED job
    \/ \E t \in 1..StreamTasks :
          \/ WrapperAcquire(t)
          \/ RunSetRunning(t)
          \/ RunBump(t)
          \/ update_task_progress(t)
          \/ check_cancel(t)
          \/ RunCallReturns(t)
          \/ RunCallRaises(t)
          \/ RunBranch(t)
          \/ RunComplete(t)
          \/ RunExcept(t)
          \/ RunExceptRaises(t)
          \/ handle_task_error(t)
          \/ WrapperFinally(t)

StreamSpec == Init /\ [][NextStream]_vars

\* ------------------------------------------------------------ the scheduler
\* the task machinery, but for the clock, the stop events and the count of
\* cancel requests
rest == <<TASKS, TASK_THREADS, TASK_STOP_EVENTS, TASK_VERSIONS,
          LAST_COMPLETED_TASK, ANALYSIS_SEMAPHORE, uuid, worker, caller,
          raises, stream>>

\* the task ids _run_candlestick_strategy and _run_timeframe_review make with
\* uuid4(): ids under which no task is ever registered
CandlestickId == -1
ReviewId == -2

\* a job of the scheduler: add_job(func=..., trigger=..., id=...)
Job(id, func, trigger) == [id |-> id, func |-> func, trigger |-> trigger]

\* add_job as it would be if a job were added whatever jobs there are
add_job_NoReplace(store, j) == Append(store, j)

\* add_job(..., id=j.id, replace_existing=True)
add_job(store, j) ==
    IF \E n \in DOMAIN store : store[n].id = j.id
    THEN [n \in DOMAIN store |-> IF store[n].id = j.id THEN j ELSE store[n]]
    ELSE Append(store, j)

\* the scheduler has a job under this id; the job; the store without it
Scheduled(id) == \E n \in DOMAIN jobstore : jobstore[n].id = id
get_job(id) == jobstore[CHOOSE n \in DOMAIN jobstore : jobstore[n].id = id]
remove_job(store, id) == SelectSeq(store, LAMBDA j : j.id # id)

\* the jobs TaskScheduler.start adds
DailyJob == Job("daily_crypto_analysis", "_run_daily_tasks", "cron 00:00")
CandlestickJob ==
    Job("candlestick_strategy", "_run_candlestick_strategy", "cron */10")
ReviewJob ==
    Job("daily_timeframe_review", "_run_timeframe_review", "cron 01:00")
StartupJob == Job("startup_test_position", "_startup_test_position", "date")
\* the job run_daily_tasks_now adds
ManualJob == Job("manual_daily_run", "_run_daily_tasks", "date")

\* TaskScheduler.start(), called when main.py is imported
start ==
    /\ ~task_scheduler.is_running
    /\ jobstore' = add_job(add_job(add_job(add_job(jobstore, DailyJob),
                                           CandlestickJob), ReviewJob),
                           StartupJob)
    /\ task_scheduler' = [task_scheduler EXCEPT !.is_running = TRUE]
    /\ UNCHANGED <<rest, stop_event, now, stops, job, control, fired>>

\* _run_daily_tasks as it would be if it did not look at self.enabled
run_daily_tasks_Unchecked(id) ==
    /\ now' = now + 1
    /\ task_scheduler' = [task_scheduler EXCEPT !.last_run = now + 1]
    /\ job' = [job EXCEPT ![id].pc = "phase1"]

\* _run_daily_tasks, up to the try: the enabled flag, self.last_run
run_daily_tasks(id) ==
    IF ~task_scheduler.enabled
    THEN UNCHANGED <<task_scheduler, job, now>>
    ELSE /\ now' = now + 1
         /\ task_scheduler' = [task_scheduler EXCEPT !.last_run = now + 1]
         /\ job' = [job EXCEPT ![id].pc = "phase1"]

\* _run_candlestick_strategy, up to the call of run_candlestick_strategy
run_candlestick_strategy(id) ==
    IF ~task_scheduler.enabled
    THEN UNCHANGED <<task_scheduler, job, now>>
    ELSE /\ task_scheduler' = [task_scheduler EXCEPT
                !.current_candlestick_task_id = CandlestickId]
         /\ job' = [job EXCEPT ![id].pc = "strategy"]
         /\ UNCHANGED now

\* _run_timeframe_review, up to the call of _analyze_timeframe_performance
run_timeframe_review(id) ==
    IF ~task_scheduler.enabled
    THEN UNCHANGED <<task_scheduler, job, now>>
    ELSE /\ task_scheduler' = [task_scheduler EXCEPT
                !.current_timeframe_review_task_id = ReviewId]
         /\ job' = [job EXCEPT ![id].pc = "analyze"]
         /\ UNCHANGED now

\* _startup_test_position, up to the call of _place_minimal_test_position
startup_test_position(id) ==
    /\ job' = [job EXCEPT ![id].pc = "place"]
    /\ UNCHANGED <<task_scheduler, now>>

\* The trigger of a job fires and an executor thread calls the job's function;
\* a job with a date trigger is removed as it fires, and a job whose function
\* is still running is not run again (max_instances is 1).
Fire(id) ==
    /\ task_scheduler.is_running
    /\ fired < MaxFires
    /\ Scheduled(id)
    /\ job[id].pc = "idle"
    /\ fired' = fired + 1
    /\ jobstore' = IF get_job(id).trigger = "date"
                   THEN remove_job(jobstore, id) ELSE jobstore
    /\ CASE get_job(id).func = "_run_daily_tasks" -> run_daily_tasks(id)
         [] get_job(id).func = "_run_candlestick_strategy" ->
              run_candlestick_strategy(id)
         [] get_job(id).func = "_run_timeframe_review" ->
              run_timeframe_review(id)
         [] get_job(id).func = "_startup_test_position" ->
              startup_test_position(id)
    /\ UNCHANGED <<rest, stop_event, stops, control>>

\* the jobs whose function is _run_daily_tasks
Composite == {"daily_crypto_analysis", "manual_daily_run"}

\* _run_daily_tasks calls create_analysis_task (phase 1) or
\* create_news_evaluation_task (phase 2)
JobCreate(id, c) ==
    /\ job[id].pc \in {"phase1", "phase2"}
    /\ IF job[id].pc = "phase1"
       THEN create_analysis_task(c)
       ELSE create_news_evaluation_task(c)
    /\ job' = [job EXCEPT ![id].pc = IF @ = "phase1" THEN "creating1"
                                      ELSE "creating2"]

\* the call returns the id of the new task
JobCreated(id, c) ==
    /\ job[id].pc \in {"creating1", "creating2"}
    /\ C(c).pc = "create" /\ C(c).s = 4
    /\ CreateTask(c)
    /\ job' = [job EXCEPT ![id] =
          IF @.pc = "creating1"
          THEN [@ EXCEPT !.analysis_task_id = C(c).task_id, !.pc = "assign1"]
          ELSE [@ EXCEPT !.news_task_id = C(c).task_id, !.pc = "assign2"]]

\* self.current_analysis_task_id = analysis_task_id, and the same for news
JobAssign(id) ==
    /\ job[id].pc \in {"assign1", "assign2"}
    /\ task_scheduler' =
          IF job[id].pc = "assign1"
          THEN [task_scheduler EXCEPT
                   !.current_analysis_task_id = job[id].analysis_task_id]
          ELSE [task_scheduler EXCEPT
                   !.current_news_task_id = job[id].news_task_id]
    /\ job' = [job EXCEPT ![id].pc = IF @ = "assign1" THEN "wait1"
                                      ELSE "wait2"]
    /\ UNCHANGED <<rest, stop_event, now, stops, jobstore, control, fired>>

\* the task _wait_for_task_completion is waiting for
Awaited(id) == IF job[id].pc = "wait1" THEN job[id].analysis_task_id
               ELSE job[id].news_task_id

\* _wait_for_task_completion returns: the task is not found, or its status
\* is completed, failed or cancelled
wait_for_task_completion(id) ==
    /\ job[id].pc \in {"wait1", "wait2"}
    /\ job[id].elapsed < MaxWait
    /\ \/ ~Registered(Awaited(id))
       \/ TASKS[Awaited(id)].status \in Terminal
    /\ job' = [job EXCEPT ![id].pc = IF @ = "wait1" THEN "phase2"
                                      ELSE "phase3",
                          ![id].elapsed = 0]
    /\ UNCHANGED <<shared, uuid, worker, caller, stops, raises, stream,
                   sched>>

\* _wait_for_task_completion finds the task with another status and sleeps
WaitSleep(id) ==
    /\ job[id].pc \in {"wait1", "wait2"}
    /\ job[id].elapsed < MaxWait
    /\ Registered(Awaited(id))
    /\ TASKS[Awaited(id)].status \notin Terminal
    /\ job' = [job EXCEPT ![id].elapsed = @ + 1]
    /\ UNCHANGED <<shared, uuid, worker, caller, stops, raises, stream,
                   sched>>

\* WaitTimeout as it would be if the wait could give up before its time
WaitTimeout_Early(id) ==
    /\ job[id].pc \in {"wait1", "wait2"}
    /\ job' = [job EXCEPT ![id].pc = IF @ = "wait1" THEN "phase2"
                                      ELSE "phase3",
                          ![id].elapsed = 0]
    /\ UNCHANGED <<shared, uuid, worker, caller, stops, raises, stream,
                   sched>>

\* _wait_for_task_completion returns after max_wait_seconds: the condition
\* of its while is false
WaitTimeout(id) ==
    /\ job[id].pc \in {"wait1", "wait2"}
    /\ job[id].elapsed = MaxWait
    /\ job' = [job EXCEPT ![id].pc = IF @ = "wait1" THEN "phase2"
                                      ELSE "phase3",
                          ![id].elapsed = 0]
    /\ UNCHANGED <<shared, uuid, worker, caller, stops, raises, stream,
                   sched>>

\* phase 3, up to execute_signals: list_open_trades, which may raise, and
\* generate_buy_sell_signals_from_latest: task = get_last_completed_task()
generate_buy_sell_signals_from_latest(id) ==
    /\ job[id].pc = "phase3"
    /\ \E raised \in BOOLEAN :
          job' = [job EXCEPT
             ![id].pc = IF raised THEN "finally" ELSE "execute",
             ![id].s = IF raised THEN 1 ELSE 0,
             ![id].task = IF raised THEN NoTask
                          ELSE get_last_completed_task]
    /\ UNCHANGED <<shared, uuid, worker, caller, stops, raises, stream,
                   sched>>

\* execute_signals(batch), returning or raising
execute_signals(id) ==
    /\ job[id].pc = "execute"
    /\ job' = [job EXCEPT ![id].pc = "finally", ![id].s = 1,
                          ![id].task = NoTask]
    /\ UNCHANGED <<shared, uuid, worker, caller, stops, raises, stream,
                   sched>>

\* the finally of _run_daily_tasks, and its return
JobFinally(id) ==
    /\ job[id].pc = "finally"
    /\ CASE job[id].s = 1 ->
              /\ task_scheduler' = [task_scheduler EXCEPT
                    !.current_analysis_task_id = NoTask]
              /\ job' = [job EXCEPT ![id].s = 2]
         [] job[id].s = 2 ->
              /\ task_scheduler' = [task_scheduler EXCEPT
                    !.current_news_task_id = NoTask]
              /\ job' = [job EXCEPT ![id] = NoJob]
    /\ UNCHANGED <<rest, stop_event, now, stops, jobstore, control, fired>>

\* run_candlestick_strategy, _analyze_timeframe_performance or
\* _place_minimal_test_position returns or raises, and the job's function
\* ends: its finally clears the slot it set
JobReturns(id) ==
    /\ job[id].pc \in {"strategy", "analyze", "place"}
    /\ task_scheduler' =
          CASE job[id].pc = "strategy" ->
                 [task_scheduler EXCEPT !.current_candlestick_task_id = NoTask]
            [] job[id].pc = "analyze" ->
                 [task_scheduler EXCEPT
                     !.current_timeframe_review_task_id = NoTask]
            [] job[id].pc = "place" -> task_scheduler
    /\ job' = [job EXCEPT ![id] = NoJob]
    /\ UNCHANGED <<rest, stop_event, now, stops, jobstore, control, fired>>

\* the progress run_candlestick_strategy reports, in percent: before and after
\* the configuration is loaded, before monitor_and_trade, and at its end
StrategyProgress == <<5, 10, 20, 100>>

\* update_task_progress(task_id, ...) of the strategy's run as it would be if
\* it bumped the version whether or not a task is registered under task_id
strategy_update_task_progress_Unguarded(id) ==
    /\ job[id].pc = "strategy"
    /\ job[id].s < Len(StrategyProgress)
    /\ BumpWrite(CandlestickId, BumpRead(CandlestickId))
    /\ job' = [job EXCEPT ![id].s = @ + 1]
    /\ UNCHANGED <<TASKS, TASK_THREADS, TASK_STOP_EVENTS, LAST_COMPLETED_TASK,
                   ANALYSIS_SEMAPHORE, uuid, worker, caller, raises, stream,
                   stop_event, now, stops, sched>>

\* update_task_progress(task_id, ...), called by run_candlestick_strategy
\* with the id _run_candlestick_strategy made: if task_id in TASKS, the
\* progress and the message are stored and the version is bumped
strategy_update_task_progress(id) ==
    /\ job[id].pc = "strategy"
    /\ job[id].s < Len(StrategyProgress)
    /\ IF Registered(CandlestickId)
       THEN /\ TASKS' = [TASKS EXCEPT
                   ![CandlestickId].progress = StrategyProgress[job[id].s + 1],
                   ![CandlestickId].message = "run_candlestick_strategy"]
            /\ BumpWrite(CandlestickId, BumpRead(CandlestickId))
       ELSE UNCHANGED <<TASKS, TASK_VERSIONS>>
    /\ job' = [job EXCEPT ![id].s = @ + 1]
    /\ UNCHANGED <<TASK_THREADS, TASK_STOP_EVENTS, LAST_COMPLETED_TASK,
                   ANALYSIS_SEMAPHORE, uuid, worker, caller, raises, stream,
                   stop_event, now, stops, sched>>

\* POST /api/scheduler/enable
enable_scheduled_tasks(enabled) ==
    /\ task_scheduler.is_running
    /\ enabled # task_scheduler.enabled
    /\ task_scheduler' = [task_scheduler EXCEPT !.enabled = enabled]
    /\ UNCHANGED <<rest, stop_event, now, stops, jobstore, job, control,
                   fired>>

\* POST /api/scheduler/run-now
run_daily_tasks_now ==
    /\ task_scheduler.is_running
    /\ control.pc = "idle"
    /\ control.run_now < MaxRunNow
    /\ jobstore' = add_job(jobstore, ManualJob)
    /\ control' = [control EXCEPT !.run_now = @ + 1]
    /\ UNCHANGED <<rest, stop_event, now, stops, task_scheduler, job, fired>>

\* POST /api/scheduler/stop: stop_current_tasks is called
StopCurrentBegin ==
    /\ task_scheduler.is_running
    /\ control.pc = "idle"
    /\ stops < MaxStops
    /\ stops' = stops + 1
    /\ control' = [control EXCEPT !.pc = "stop", !.k = 1, !.s = 1,
                                  !.stopped_any = FALSE, !.result = None]
    /\ UNCHANGED <<rest, stop_event, now, task_scheduler, jobstore, job,
                   fired>>

\* stop_current_tasks goes on to its next slot, or returns stopped_any
StopNext(ctl) ==
    IF ctl.k < Len(Slots)
    THEN [ctl EXCEPT !.k = @ + 1, !.s = 1]
    ELSE [ctl EXCEPT !.pc = "idle", !.k = 0, !.s = 0, !.stopped_any = FALSE,
                     !.result = IF ctl.stopped_any THEN "True" ELSE "False"]

\* stop_current_tasks, slot by slot: if self.current_..._task_id (step 1);
\* stop_event = TASK_STOP_EVENTS.get(self.current_..._task_id), and
\* if stop_event: stop_event.set(); stopped_any = True (step 2)
stop_current_tasks ==
    /\ control.pc = "stop"
    /\ LET slot == task_scheduler[Slots[control.k]] IN
       CASE control.s = 1 ->
              /\ control' = IF slot = NoTask THEN StopNext(control)
                            ELSE [control EXCEPT !.s = 2]
              /\ UNCHANGED stop_event
         [] control.s = 2 ->
              IF slot \in TASK_STOP_EVENTS
              THEN /\ stop_event' = [stop_event EXCEPT ![slot] = TRUE]
                   /\ control' =
                         StopNext([control EXCEPT !.stopped_any = TRUE])
              ELSE /\ control' = StopNext(control)
                   /\ UNCHANGED stop_event
    /\ UNCHANGED <<rest, now, stops, task_scheduler, jobstore, job, fired>>

\* The scheduler with its jobs and its controls; the tasks the jobs create
\* are not given the processor, so a wait for one ends by its timeout
NextJobs ==
    \/ start
    \/ \E id \in JobIds : Fire(id)
    \/ \E id \in Composite, c \in Callers :
          \/ JobCreate(id, c)
          \/ JobCreated(id, c)
    \/ \E c \in Callers : C(c).s < 4 /\ CreateTask(c) /\ UNCHANGED job
    \/ \E id \in Composite :
          \/ JobAssign(id)
          \/ WaitSleep(id)
          \/ WaitTimeout(id)
          \/ generate_buy_sell_signals_from_latest(id)
          \/ execute_signals(id)
          \/ JobFinally(id)
    \/ strategy_update_task_progress("candlestick_strategy")
    \/ \E id \in JobIds : JobReturns(id)
    \/ \E enabled \in BOOLEAN : enable_scheduled_tasks(enabled)
    \/ run_daily_tasks_now

JobsSpec == Init /\ [][NextJobs]_vars

\* The daily job with the tasks it creates, and the stop control; no wait
\* lasts until its timeout
NextSched ==
    \/ start
    \/ Fire("daily_crypto_analysis")
    \/ \E c \in Callers :
          \/ uuid < MaxTasks /\ JobCreate("daily_crypto_analysis", c)
          \/ JobCreated("daily_crypto_analysis", c)
          \/ C(c).s < 4 /\ CreateTask(c) /\ UNCHANGED job
    \/ JobAssign("daily_crypto_analysis")
    \/ wait_for_task_completion("daily_crypto_analysis")
    \/ generate_buy_sell_signals_from_latest("daily_crypto_analysis")
    \/ execute_signals("daily_crypto_analysis")
    \/ JobFinally("daily_crypto_analysis")
    \/ StopCurrentBegin
    \/ stop_current_tasks
    \/ \E t \in 1..MaxTasks :
          \/ WrapperAcquire(t)
          \/ WrapperAcquireTimeout(t)
          \/ WrapperTimeout(t)
          \/ RunSetRunning(t)
          \/ RunBump(t)
          \/ update_task_progress(t)
          \/ check_cancel(t)
          \/ RunCallReturns(t)
          \/ RunCallRaises(t)
          \/ RunBranch(t)
          \/ RunComplete(t)
          \/ RunExcept(t)
          \/ RunExceptRaises(t)
          \/ handle_task_error(t)
          \/ WrapperFinally(t)

SchedSpec == Init /\ [][NextSched]_vars

\* The jobs the scheduler starts with, and the stop control; the tasks the
\* daily job creates are not given the processor
NextStop ==
    \/ start
    \/ \E id \in JobIds : Fire(id)
    \/ \E c \in Callers :
          \/ JobCreate("daily_crypto_analysis", c)
          \/ JobCreated("daily_crypto_analysis", c)
          \/ C(c).s < 4 /\ CreateTask(c) /\ UNCHANGED job
    \/ JobAssign("daily_crypto_analysis")
    \/ WaitSleep("daily_crypto_analysis")
    \/ WaitTimeout("daily_crypto_analysis")
    \/ generate_buy_sell_signals_from_latest("daily_crypto_analysis")
    \/ execute_signals("daily_crypto_analysis")
    \/ JobFinally("daily_crypto_analysis")
    \/ \E id \in JobIds : JobReturns(id)
    \/ StopCurrentBegin
    \/ stop_current_tasks

StopSpec == Init /\ [][NextStop]_vars

\* The requests about one task: its creation, status requests and cancel
\* requests, with the task's thread; the gate is never contended
NextApi ==
    \/ \E c \in Callers :
          \/ uuid < ApiTasks /\ create_analysis_task(c) /\ UNCHANGED job
          \/ uuid < ApiTasks /\ create_news_evaluation_task(c)
                 /\ UNCHANGED job
          \/ CreateTask(c) /\ UNCHANGED job
          \/ \E task_id \in 1..MaxTasks :
                \/ get_task_status_universal(c, task_id)
                \/ StopBegin(c, task_id)
          \/ stop_task_universal(c)
    \/ \E t \in 1..ApiTasks :
          \/ WrapperAcquire(t)
          \/ RunSetRunning(t)
          \/ RunBump(t)
          \/ update_task_progress(t)
          \/ check_cancel(t)
          \/ RunCallReturns(t)
          \/ RunCallRaises(t)
          \/ RunBranch(t)
          \/ RunComplete(t)
          \/ RunExcept(t)
          \/ RunExceptRaises(t)
          \/ handle_task_error(t)
          \/ WrapperFinally(t)

ApiSpec == Init /\ [][NextApi]_vars

\* the next statement of the thread of task t, when its wrapper gets the gate
\* without waiting
WrapperThread(t) ==
    \/ WrapperAcquire(t)
    \/ RunSetRunning(t)
    \/ RunBump(t)
    \/ update_task_progress(t)
    \/ check_cancel(t)
    \/ RunCallReturns(t)
    \/ RunCallRaises(t)
    \/ RunBranch(t)
    \/ RunComplete(t)
    \/ RunExcept(t)
    \/ RunExceptRaises(t)
    \/ handle_task_error(t)
    \/ WrapperFinally(t)

\* The same requests under fair scheduling: a thread that has a next
\* statement executes it in the end, so a started thread runs until it
\* returns, every collaborator call returns or raises, and a request handler
\* that was entered runs to its answer.  Nothing obliges a client to send a
\* request.
FairApiSpec ==
    /\ Init /\ [][NextApi]_vars
    /\ \A t \in 1..ApiTasks : WF_vars(WrapperThread(t))
    /\ \A c \in Callers :
          /\ WF_vars(CreateTask(c) /\ UNCHANGED job)
          /\ WF_vars(stop_task_universal(c))

\* ---------------------------------------------------------- specification
Next ==
    \/ \E c \in Callers :
          \/ uuid < MaxTasks /\ create_analysis_task(c) /\ UNCHANGED job
          \/ uuid < MaxTasks /\ create_news_evaluation_task(c)
                 /\ UNCHANGED job
          \/ CreateTask(c) /\ UNCHANGED job
          \/ \E task_id \in TaskIds : StopBegin(c, task_id)
          \/ stop_task_universal(c)
    \/ \E t \in TaskIds :
          \/ WrapperAcquire(t)
          \/ WrapperAcquireTimeout(t)
          \/ WrapperTimeout(t)
          \/ RunSetRunning(t)
          \/ RunBump(t)
          \/ update_task_progress(t)
          \/ check_cancel(t)
          \/ RunCallReturns(t)
          \/ RunCallRaises(t)
          \/ RunBranch(t)
          \/ RunComplete(t)
          \/ RunExcept(t)
          \/ RunExceptRaises(t)
          \/ handle_task_error(t)
          \/ WrapperFinally(t)

Spec == Init /\ [][Next]_vars

\* ------------------------------------------------------------------ claims
\* the wrapper of t is between a successful acquire and its release
Holding(t) ==
    /\ W(t).semaphore_acquired
    /\ \/ W(t).pc \in {"run", "except", "handle_task_error"}
       \/ W(t).pc = "finally" /\ W(t).s = 1

\* the computation of t has been invoked and has not returned
Computing(t) == W(t).pc \in {"run", "except"}

Status(t) == TASKS[t].status

\* C1: over any interleaving of analysis and news wrappers at most one wrapper
\* is between a successful gate acquisition and its release, and a computation
\* is invoked only by the wrapper that holds the permit.
C1_GateExclusive ==
    /\ \A t, u \in TaskIds : Holding(t) /\ Holding(u) => t = u
    /\ \A t \in TaskIds : Computing(t) => Holding(t)
    /\ ANALYSIS_SEMAPHORE \in {0, 1}

\* a news wrapper holds the gate after an analysis wrapper, or the reverse,
\* has held and released it, while the other kind ran to its end
C1_Witness ==
    \E t, u \in TaskIds :
        /\ W(t).pc = "done" /\ W(t).semaphore_acquired
        /\ Computing(u) /\ W(u).kind # W(t).kind

\* C2: every change of a task's status is PENDING->RUNNING, RUNNING->COMPLETED,
\* RUNNING->FAILED, RUNNING->CANCELLED, or PENDING->FAILED on gate timeout; a
\* COMPLETED, FAILED or CANCELLED status never changes again.
C2_Transitions ==
    {<<PENDING, RUNNING>>, <<RUNNING, COMPLETED>>, <<RUNNING, FAILED>>,
     <<RUNNING, CANCELLED>>, <<PENDING, FAILED>>}

C2_StatusMachine ==
    [][\A t \in DOMAIN TASKS :
          TASKS'[t].status # TASKS[t].status =>
             /\ <<TASKS[t].status, TASKS'[t].status>> \in C2_Transitions
             /\ TASKS[t].status = PENDING /\ TASKS'[t].status = FAILED
                   => W(t).pc = "timeout"]_vars

\* C3: at most one task has status RUNNING, and a task has status RUNNING only
\* while its wrapper holds the gate permit.
C3_OneRunning ==
    /\ Cardinality({t \in DOMAIN TASKS : Status(t) = RUNNING}) <= 1
    /\ \A t \in DOMAIN TASKS : Status(t) = RUNNING => Holding(t)

\* C4: once cancellation was requested for a task whose signal was registered,
\* the task ends CANCELLED with completed_at set: when its wrapper has
\* finished and no cancel request for it is still being served, its status is
\* CANCELLED, not COMPLETED or FAILED.
C4_CancelledInTheEnd ==
    \A t \in DOMAIN TASKS :
        /\ stop_event[t]
        /\ W(t).pc = "done"
        /\ \A c \in Callers : ~(C(c).pc = "stop" /\ C(c).task_id = t)
        => Status(t) = CANCELLED /\ TASKS[t].completed_at # NoTime

\* C5: a cancel request that arrives for a task in a terminal status is
\* answered NotCancellable, and a request answered with an error changes
\* neither the task records, nor the versions, nor the signal map, nor a signal.
C5_NotCancellable ==
    [][\A c \in Callers :
          /\ C(c).pc = "idle" /\ caller'[c].pc = "stop"
                => Status(caller'[c].task_id) \notin Terminal
          /\ stops' # stops /\ caller'[c] = caller[c]
                => UNCHANGED <<TASKS, TASK_VERSIONS, TASK_STOP_EVENTS,
                               stop_event>>]_vars

\* the last step of update-progress or of a terminal-setting operation of t
LastStepOfOp(t) ==
    \/ At(t, "progress") /\ W(t).s = 3
    \/ At(t, "check") /\ W(t).s = 5
    \/ At(t, "complete") /\ W(t).s = 8
    \/ W(t).pc = "except" /\ W(t).s = 6
    \/ W(t).pc = "timeout" /\ W(t).s = 5
    \/ W(t).pc = "handle_task_error" /\ W(t).s = 4

\* C6: update-progress and every terminal-setting operation (COMPLETED, FAILED,
\* CANCELLED by the computation, the gate-timeout failure, the wrapper's
\* mark-failed handler) return with the task's version strictly greater than
\* it was when they were called.
C6_VersionBumped ==
    [][\A t \in TaskIds :
          LastStepOfOp(t) /\ worker'[t] # worker[t]
             => DictGet(TASK_VERSIONS', t, 0) > W(t).ver_before]_vars

\* thread-local: a thread is about to store the version it computed for t
WorkerBumpWrite(t) ==
    \/ At(t, "bump") /\ W(t).s = 2
    \/ At(t, "progress") /\ W(t).s = 3
    \/ At(t, "check") /\ W(t).s = 5
    \/ At(t, "complete") /\ W(t).s = 8
    \/ W(t).pc = "except" /\ W(t).s = 6
    \/ W(t).pc = "timeout" /\ W(t).s = 5

CallerBumpWrite(c, t) == C(c).pc = "stop" /\ C(c).s = 7 /\ C(c).task_id = t

\* C7: under concurrent bumps by the worker thread and API threads the
\* version of a task never decreases, and no bump is lost: every bump leaves
\* the version one higher than it was.
C7_VersionMonotone ==
    [][\A t \in TaskIds :
          /\ DictGet(TASK_VERSIONS', t, 0) >= Version(t)
          /\ \/ WorkerBumpWrite(t) /\ worker'[t] # worker[t]
             \/ \E c \in Callers : CallerBumpWrite(c, t) /\ caller'[c] # caller[c]
             => DictGet(TASK_VERSIONS', t, 0) = Version(t) + 1]_vars

\* C8: no reader observes a changed status together with the version the task
\* had before the change: two reads of (status, version) with the same version
\* have the same status.
C8_StatusVersionAtomic ==
    [][\A t \in DOMAIN TASKS :
          DictGet(TASK_VERSIONS', t, 0) = Version(t)
             => TASKS'[t].status = TASKS[t].status]_vars

\* C9: in every observable state of every task, error is non-null if and only
\* if status is FAILED.
C9_ErrorIffFailed ==
    \A t \in DOMAIN TASKS : (TASKS[t].error # None) <=> (Status(t) = FAILED)

\* C10: in every observable state of every task, a non-null result implies
\* status COMPLETED.
C10_ResultImpliesCompleted ==
    \A t \in DOMAIN TASKS : TASKS[t].result # None => Status(t) = COMPLETED

\* the step of a terminal-setting operation of t that assigns completed_at
WritesCompletedAt(t) ==
    \/ At(t, "check") /\ W(t).s = 3
    \/ At(t, "complete") /\ W(t).s = 4
    \/ W(t).pc = "except" /\ W(t).s = 3
    \/ W(t).pc = "timeout" /\ W(t).s = 3
    \/ W(t).pc = "handle_task_error" /\ W(t).s = 4

\* C11: completed_at of a task goes from null to non-null once: a value once
\* written is never written again by any operation, it is written by the
\* terminal-setting operation of the task's own wrapper thread and by nothing
\* else, and a wrapper never finishes with completed_at still null.
C11_CompletedAtOnce ==
    [][\A t \in DOMAIN TASKS :
          /\ TASKS[t].completed_at # NoTime
                => TASKS'[t].completed_at = TASKS[t].completed_at
          /\ TASKS'[t].completed_at # TASKS[t].completed_at
                => WritesCompletedAt(t) /\ worker'[t] # worker[t]
          /\ worker'[t].pc = "done" => TASKS'[t].completed_at # NoTime]_vars

\* a wrapper has finished and a cancel request wrote to the task after its
\* completed_at was set
C11_Witness ==
    \E t \in DOMAIN TASKS :
        /\ W(t).pc = "done"
        /\ TASKS[t].completed_at # NoTime
        /\ TASKS[t].message = "stopping"

\* the gate acquisition of t's wrapper has timed out
TimedOut(t) ==
    /\ W(t).pc \in {"timeout", "finally", "done"}
    /\ ~W(t).semaphore_acquired

\* C12: a task whose wrapper timed out on the gate does not have status
\* RUNNING, its computation is not invoked, and once the timeout branch has
\* returned the task is FAILED with the contention message and a version
\* above the initial one.
C12_GateTimeout ==
    \A t \in DOMAIN TASKS :
        TimedOut(t) =>
            /\ Status(t) # RUNNING
            /\ ~Computing(t)
            /\ W(t).pc \in {"finally", "done"} =>
                  /\ Status(t) = FAILED
                  /\ TASKS[t].message = "contention"
                  /\ Version(t) > 0

\* C13: the permits are conserved (the permits left plus the wrappers between
\* acquire and release are always one, so a wrapper that acquired released
\* once and one that did not released nothing), and a wrapper that has
\* finished, by whatever path, has left no entry of its task in the
\* active-thread registry or the active-signal registry.
C13_WrapperCleanup ==
    /\ ANALYSIS_SEMAPHORE + Cardinality({t \in TaskIds : Holding(t)}) = 1
    /\ \A t \in TaskIds :
          W(t).pc = "done" =>
             /\ ~Holding(t)
             /\ t \notin TASK_THREADS
             /\ t \notin TASK_STOP_EVENTS

\* one wrapper finished after a gate timeout and the other after its
\* computation raised
C13_Witness ==
    \E t, u \in TaskIds :
        /\ W(t).pc = "done" /\ ~W(t).semaphore_acquired
        /\ W(u).pc = "done" /\ W(u).semaphore_acquired
        /\ TASKS[u].error # None

\* C14: when the computation of t raised, the handler that marks the failure
\* (the computation's own, or the wrapper's when the exception escapes)
\* returns with the task FAILED, error the exception's description and
\* completed_at set, the wrapper goes on to its cleanup, and the task of a
\* finished wrapper whose computation raised is FAILED.
C14_RaiseMarksFailed ==
    [][\A t \in DOMAIN TASKS :
          /\ W(t).pc \in {"except", "handle_task_error"}
                => worker'[t].pc \in {"except", "handle_task_error", "finally"}
          /\ W(t).pc \in {"except", "handle_task_error"}
             /\ worker'[t].pc = "finally"
                => /\ TASKS'[t].status = FAILED
                   /\ TASKS'[t].error = "error"
                   /\ TASKS'[t].completed_at # NoTime
          /\ worker'[t].pc = "done" /\ TASKS'[t].error # None
             /\ (\A c \in Callers :
                    ~(caller'[c].pc = "stop" /\ caller'[c].task_id = t))
                => TASKS'[t].status = FAILED]_vars

\* C15, as the code has it: create-task is always able to take its next step,
\* whatever the gate and the other tasks do; it registers, under an ID that
\* was not in the registry, a task with status PENDING and progress 0.0, then
\* under the same ID a signal that is not set, then starts the one wrapper of
\* the task, which had not been started.  (The status at the return is left
\* open: the wrapper runs from its start on.)
C15_CreateRegisters ==
    /\ [](\A c \in Callers : C(c).pc = "create" => ENABLED CreateTask(c))
    /\ [][\A c \in Callers :
            LET id == C(c).task_id IN
            C(c).pc = "create" /\ caller'[c] # caller[c] =>
               /\ C(c).s = 1 =>
                     /\ ~Registered(id)
                     /\ TASKS'[id].status = PENDING
                     /\ TASKS'[id].progress = 0
               /\ C(c).s = 2 =>
                     /\ id \notin TASK_STOP_EVENTS
                     /\ id \in TASK_STOP_EVENTS'
                     /\ ~stop_event'[id]
               /\ C(c).s = 3 =>
                     /\ W(id).pc = "unstarted"
                     /\ worker'[id].pc = "acquire"
                     /\ id \in TASK_THREADS'
                     /\ \A t \in TaskIds \ {id} : worker'[t] = worker[t]]_vars

\* the second task has been created and its wrapper started while the first
\* task is being computed with status RUNNING
C15_Witness ==
    \E c \in Callers :
        /\ C(c).pc = "create" /\ C(c).s = 4 /\ C(c).task_id = 2
        /\ Status(2) = PENDING
        /\ Status(1) = RUNNING /\ Computing(1)

\* C15, as stated: create-task has no step that waits for the gate or the computation;
\* the ID it registers is not in the registry before, and at its return the
\* registry holds the task with status PENDING and progress 0.0, the signal
\* registered under the ID is not set, and the wrapper of the task has been
\* started.
C15_CreateReturns ==
    [][\A c \in Callers :
          LET id == C(c).task_id IN
          /\ C(c).pc = "create" /\ C(c).s = 1 /\ caller'[c] # caller[c]
                => ~Registered(id)
          /\ C(c).pc = "create" /\ C(c).s = 4 /\ caller'[c].pc = "idle"
                => /\ Registered(id)
                   /\ Status(id) = PENDING
                   /\ TASKS[id].progress = 0
                   /\ id \in TASK_STOP_EVENTS
                   /\ ~stop_event[id]
                   /\ W(id).pc # "unstarted"]_vars

\* C16: when create-task returns for a task while the computation of an
\* earlier task has not ended (its wrapper is started and is waiting for the
\* gate or computing), the task was registered with the contention message:
\* the scan of the registry had found a running task.
C16_ContentionMessage ==
    [][\A c \in Callers :
          LET id == C(c).task_id IN
          /\ C(c).pc = "create" /\ C(c).s = 4 /\ caller'[c].pc = "idle"
          /\ \E u \in TaskIds \ {id} : W(u).pc \in {"acquire", "run"}
          => C(c).running_tasks]_vars

\* C17, as the code has it: a wrapper that waits for the gate can acquire it
\* whenever the permit is free, it gives up only while another wrapper holds
\* the permit (after the bounded wait), and a wrapper that acquired the permit
\* begins its computation by making the task RUNNING.
C17_AdmittedWhenReleased ==
    /\ [](\A t \in TaskIds :
            /\ W(t).pc = "acquire" /\ ANALYSIS_SEMAPHORE > 0
                  => ENABLED WrapperAcquire(t)
            /\ W(t).pc = "run" /\ W(t).i = 1
                  => Cur(t).op = "set_running" /\ ENABLED RunSetRunning(t))
    /\ [][\A t \in TaskIds :
            W(t).pc = "acquire" /\ worker'[t].pc = "timeout"
               => ANALYSIS_SEMAPHORE = 0
                  /\ \E u \in TaskIds \ {t} : Holding(u)]_vars

\* a task created while the first was running has become RUNNING after the
\* first ended and released the permit
C17_Witness ==
    \E t, u \in TaskIds :
        /\ W(t).pc = "done" /\ Status(t) \in Terminal
        /\ W(u).pc = "run" /\ W(u).i = 2
        /\ Status(u) = RUNNING /\ TASKS[u].message = "waiting"

\* C17, as stated: a task queued behind the holder of the gate is admitted once the
\* holder has released the permit, however long the holder ran: no wrapper
\* gives up waiting for the gate, so a wrapper that has finished had acquired
\* the permit and its computation was invoked.
C17_QueuedIsAdmitted ==
    \A t \in TaskIds :
        /\ W(t).pc # "timeout"
        /\ W(t).pc = "done" => W(t).semaphore_acquired

\* no cancel request for t has been accepted
NotCancelled(t) ==
    /\ ~stop_event[t]
    /\ \A c \in Callers : ~(C(c).pc = "stop" /\ C(c).task_id = t)

\* the computation of t has gone through its completion block and returned
RanToItsEnd(t) == W(t).pc \in {"finally", "done"} /\ TASKS[t].result # None

\* C18: a task whose computation ran to its end, with no cancellation
\* requested for it, has status COMPLETED, progress 1.0, a result and
\* completed_at set, and get-last-completed returns it unless another task
\* went through its completion after it.
C18_RunsToCompleted ==
    \A t \in DOMAIN TASKS :
        RanToItsEnd(t) /\ NotCancelled(t) =>
            /\ Status(t) = COMPLETED
            /\ TASKS[t].progress = 100
            /\ TASKS[t].completed_at # NoTime
            /\ \/ get_last_completed_task = t
               \/ \E u \in DOMAIN TASKS \ {t} :
                     /\ get_last_completed_task = u
                     /\ TASKS[u].result # None
                     /\ TASKS[u].completed_at > TASKS[t].completed_at

\* a task completed, another task ended after it without completing, and
\* get-last-completed still returns the first
C18_Witness ==
    \E t, u \in DOMAIN TASKS :
        /\ RanToItsEnd(t) /\ NotCancelled(t) /\ W(t).pc = "done"
        /\ get_last_completed_task = t
        /\ W(u).pc = "done" /\ Status(u) = FAILED
        /\ TASKS[u].completed_at > TASKS[t].completed_at

\* C19: whenever get-last-completed returns a task, the task is in the
\* registry, its status is COMPLETED, and no other task with status COMPLETED
\* completed after it.
C19_LastCompleted ==
    get_last_completed_task # NoTask =>
        /\ Registered(get_last_completed_task)
        /\ Status(get_last_completed_task) = COMPLETED
        /\ \A u \in DOMAIN TASKS :
              Status(u) = COMPLETED =>
                 TASKS[u].completed_at
                    <= TASKS[get_last_completed_task].completed_at

\* C20: when the stream of a task that is in the registry has ended, it has
\* emitted a snapshot, the last snapshot it emitted has a terminal status, and
\* once the task's threads have finished that snapshot is the task's state.
C20_StreamEndsTerminal ==
    stream.pc = "closed" =>
        /\ stream.emitted # NoSnapshot
        /\ stream.emitted.status \in Terminal
        /\ W(stream.task_id).pc = "done" /\ NotCancelled(stream.task_id)
              => stream.emitted = Snapshot(stream.task_id)

\* the stream will emit nothing more unless the task changes again: it is
\* between polls or closed, and the version it recorded is the task's version
StreamUpToDate ==
    /\ stream.pc \in {"sleep", "check", "closed"}
    /\ stream.last_version = Version(stream.task_id)

\* C21: the stream of a task first emits the task's state as a baseline;
\* afterwards it emits at a poll only if the task's version differs from the
\* version recorded at the previous emission; and no change made to the task
\* after the baseline was read is left unemitted, i.e. once the task's thread
\* has finished and the stream has recorded the task's version, the snapshot
\* the stream emitted last is the task's state.
C21_StreamEmitsChanges ==
    /\ [](stream.pc = "init_version" => stream.emitted # NoSnapshot)
    /\ [][stream.pc = "update" /\ stream'.pc = "check"
             => stream.current_version # stream.last_version]_vars
    /\ []((/\ StreamUpToDate
           /\ W(stream.task_id).pc = "done"
           /\ NotCancelled(stream.task_id))
              => stream.emitted = Snapshot(stream.task_id))

\* C22: a stream whose task is not in the registry at a poll emits nothing
\* at that poll and ends there; a stream that ended this way has emitted
\* nothing at all, since no task leaves the registry.
C22_StreamNotFound ==
    /\ [][StreamVersion /\ ~Registered(stream.task_id)
             => /\ stream'.pc = "not_found"
                /\ stream'.emitted = stream.emitted]_vars
    /\ [](stream.pc = "not_found" => stream.emitted = NoSnapshot)

\* a stream opened on an id that is not in the registry has ended at its
\* first poll
C22_Witness ==
    /\ stream.pc = "not_found"
    /\ ~Registered(stream.task_id)
    /\ stream.task_id \in DOMAIN TASK_VERSIONS

\* the four current-task slots of the scheduler
CurrentTasks == [k \in DOMAIN Slots |-> task_scheduler[Slots[k]]]

\* C23: with the enabled flag false, the invocation of any job function
\* (composite, candlestick, review, startup) leaves last_run unchanged and
\* adds no task to the registry; the startup function, which goes on after
\* its invocation, does so in none of its steps.
C23_DisabledJobsDoNothing ==
    /\ [][(~task_scheduler.enabled /\ \E id \in JobIds : Fire(id))
             => /\ task_scheduler'.last_run = task_scheduler.last_run
                /\ DOMAIN TASKS' = DOMAIN TASKS]_vars
    /\ [][job'["startup_test_position"] # job["startup_test_position"]
             => /\ task_scheduler'.last_run = task_scheduler.last_run
                /\ DOMAIN TASKS' = DOMAIN TASKS]_vars

\* the manual trigger fired while the flag was false: run-now was requested,
\* its one-shot job is gone from the scheduler, and no run has set last_run
C23_Witness ==
    /\ ~task_scheduler.enabled
    /\ control.run_now > 0
    /\ ~Scheduled("manual_daily_run")
    /\ job["manual_daily_run"].pc = "idle"
    /\ task_scheduler.last_run = NoTime
    /\ TASKS = <<>>

\* C24: every job function, the startup one included, called with the enabled
\* flag false returns at once: its thread runs nothing more, so it calls no
\* collaborator, and no current-task slot changes.
C24_DisabledJobsReturn ==
    [][(~task_scheduler.enabled /\ \E id \in JobIds : Fire(id))
          => /\ job' = job
             /\ CurrentTasks' = CurrentTasks]_vars

\* C25: when a run of the composite job returns (after all its phases, after a
\* phase raised, after a wait timed out), the analysis slot and the news slot
\* are both null, and what its earlier phases did stays: the tasks it created
\* are in the registry and last_run is set.
C25_RunClearsSlots ==
    [][\A id \in Composite :
          (job[id].pc = "finally" /\ job'[id].pc = "idle")
             => /\ task_scheduler'.current_analysis_task_id = NoTask
                /\ task_scheduler'.current_news_task_id = NoTask
                /\ task_scheduler'.last_run # NoTime
                /\ \A t \in {job[id].analysis_task_id, job[id].news_task_id} :
                      t # NoTask => t \in DOMAIN TASKS']_vars

\* C26: a failure in one phase keeps the next phase from starting: a run
\* that has created its news task has an analysis task that did not fail, and
\* a run that is about to execute signals has a news task that did not fail.
C26_FailureStopsRun ==
    \A id \in Composite :
        /\ job[id].news_task_id # NoTask
              => TASKS[job[id].analysis_task_id].status # FAILED
        /\ job[id].pc = "execute"
              => TASKS[job[id].news_task_id].status # FAILED

\* C27: the task phase 3 derives the signals from is an analysis task, never
\* a news-evaluation task.
C27_SignalsFromAnalysis ==
    \A id \in Composite :
        (job[id].pc = "execute" /\ job[id].task # NoTask)
            => W(job[id].task).kind = "analysis"

\* the task a slot names is in flight: it is the id of a running candlestick
\* or review job, or of a registered task that has not ended
InFlight(slot) ==
    /\ slot # NoTask
    /\ Registered(slot) => TASKS[slot].status \notin Terminal

\* C28: stop_current_tasks sets the signal of every slot whose task has a
\* registered signal; it counts a task as stopped only if the task was in
\* flight; and it returns false only when no slot names a task in flight.
C28_StopCurrent ==
    /\ [][(control.pc = "stop" /\ control.s = 2 /\ stop_current_tasks)
             => LET slot == task_scheduler[Slots[control.k]] IN
                slot \in TASK_STOP_EVENTS
                   => /\ stop_event'[slot]
                      /\ TASKS[slot].status \notin Terminal]_vars
    /\ [][(control.pc = "stop" /\ control'.pc = "idle"
              /\ control'.result = "False")
             => \A k \in DOMAIN Slots : ~InFlight(CurrentTasks[k])]_vars

\* the jobs the scheduler has under an id
JobsWithId(id) == {n \in DOMAIN jobstore : jobstore[n].id = id}

\* C29: run-now adds a one-shot job calling the composite function under the
\* fixed id manual_daily_run: whatever run-now requests were served, the
\* scheduler has at most one job under that id, and a run-now request leaves
\* the daily job with its cron trigger as it was.
C29_OneManualTrigger ==
    /\ [](/\ Cardinality(JobsWithId("manual_daily_run")) <= 1
          /\ \A n \in JobsWithId("manual_daily_run") : jobstore[n] = ManualJob
          /\ task_scheduler.is_running
                => \E n \in DOMAIN jobstore : jobstore[n] = DailyJob)
    /\ [][run_daily_tasks_now
             => /\ Scheduled("manual_daily_run")'
                /\ \A n \in DOMAIN jobstore :
                      jobstore[n].id # "manual_daily_run"
                         => jobstore'[n] = jobstore[n]]_vars

\* run-now was requested twice with no manual run in between: the second
\* request found the job of the first
C29_Witness ==
    /\ control.run_now = 2
    /\ Scheduled("manual_daily_run")
    /\ fired = 0

\* C30: a status request and a cancel request for a task id that is not in
\* the registry are answered 404 (not found), with nothing more done for the
\* request, and leave the task map, the signal map and the version map as
\* they were.
C30_NotFound ==
    [][\A c \in Callers, task_id \in TaskIds :
          (/\ ~Registered(task_id)
           /\ \/ get_task_status_universal(c, task_id)
              \/ StopBegin(c, task_id))
             => /\ caller'[c].pc = "idle"
                /\ caller'[c].response.status = "404"
                /\ UNCHANGED <<TASKS, TASK_STOP_EVENTS, TASK_VERSIONS>>]_vars

\* a cancel request for an id that is not in the registry was answered while
\* another task was running
C30_Witness ==
    \E c \in Callers :
        /\ caller[c].response = Response("stop_task_universal", "404")
        /\ \E t \in DOMAIN TASKS : TASKS[t].status = RUNNING

\* C31: a run of the candlestick job that finds the scheduler enabled holds a
\* synthetic id in its slot for as long as it runs, under which nothing is
\* registered; the slot is null again when the run has returned, whether the
\* strategy returned or raised; and no step of the run changes the task
\* registry, the stop events or the versions.
C31_CandlestickRun ==
    [][job'["candlestick_strategy"] # job["candlestick_strategy"] =>
          /\ UNCHANGED <<TASKS, TASK_THREADS, TASK_STOP_EVENTS,
                         TASK_VERSIONS, stop_event>>
          /\ task_scheduler'.current_candlestick_task_id =
                IF job'["candlestick_strategy"].pc = "strategy"
                THEN CandlestickId ELSE NoTask
          /\ CandlestickId \notin DOMAIN TASKS' \cup TASK_STOP_EVENTS'
                                 \cup DOMAIN TASK_VERSIONS']_vars

\* the strategy has reported all its progress, beside a registered task
C31_Witness ==
    /\ job["candlestick_strategy"].pc = "strategy"
    /\ job["candlestick_strategy"].s = Len(StrategyProgress)
    /\ task_scheduler.current_candlestick_task_id = CandlestickId
    /\ DOMAIN TASKS # {}

\* C32: the status of a task becomes CANCELLED only by a step of the task's
\* own computation at a cancellation checkpoint, taken when the task's stop
\* event is set and while its wrapper holds the gate; no step of a cancel
\* request or of stop_current_tasks makes a status CANCELLED.
C32_CancelledAtCheckpoint ==
    [][\A t \in DOMAIN TASKS :
          (TASKS[t].status # CANCELLED /\ TASKS'[t].status = CANCELLED) =>
             /\ At(t, "check")
             /\ stop_event[t]
             /\ Holding(t)
             /\ worker'[t] # worker[t]
             /\ caller' = caller
             /\ control' = control]_vars

\* a computation has just marked its task cancelled at a checkpoint, after a
\* cancel request that was answered
C32_Witness ==
    \E t \in DOMAIN TASKS :
       /\ At(t, "check") /\ W(t).s = 2
       /\ TASKS[t].status = CANCELLED
       /\ stop_event[t]
       /\ Holding(t)
       /\ \E c \in Callers :
             C(c).response = Response("stop_task_universal", "200")

\* C33: a run of the daily tasks goes on to create its news task only from
\* its wait for the analysis task it created, and only when that task is
\* missing from the registry, is seen with a terminal status, or the time of
\* the wait is up; when the time is up the run goes on to the news task
\* whatever the status of the analysis task.
C33_NewsAfterAnalysis ==
    [][\A id \in Composite :
          /\ (job[id].pc # "phase2" /\ job'[id].pc = "phase2") =>
                /\ job[id].pc = "wait1"
                /\ job[id].analysis_task_id # NoTask
                /\ \/ ~Registered(job[id].analysis_task_id)
                   \/ TASKS[job[id].analysis_task_id].status \in Terminal
                   \/ job[id].elapsed = MaxWait
          /\ (job[id].pc # "creating2" /\ job'[id].pc = "creating2") =>
                job[id].pc = "phase2"
          /\ (/\ job[id].pc = "wait1"
              /\ job[id].elapsed = MaxWait
              /\ job'[id] # job[id]) => job'[id].pc = "phase2"]_vars

\* a run has created its news task after a wait that ended with the analysis
\* task still pending
C33_Witness ==
    \E id \in Composite :
       /\ job[id].pc = "assign2"
       /\ Registered(job[id].news_task_id)
       /\ TASKS[job[id].news_task_id].selected_factors = None
       /\ TASKS[job[id].analysis_task_id].status \notin Terminal

\* C34: under fair scheduling every task that was created has a terminal
\* status in the end and keeps one: no task is PENDING or RUNNING for ever.
C34_EveryTaskEnds ==
    \A t \in 1..ApiTasks :
       /\ Registered(t) ~> (Registered(t) /\ TASKS[t].status \in Terminal)
       /\ [](Registered(t) =>
               <>[](Registered(t) /\ TASKS[t].status \in Terminal))

\* a task, or a TaskResult made of it, has all the fields of the transition
\* to its terminal status
FullyEnded(task) ==
    /\ task.status \in Terminal => task.completed_at # NoTime
    /\ task.status = COMPLETED => task.result # None

\* C35: in every state a task whose status is COMPLETED, FAILED or CANCELLED
\* has its completed_at, and a COMPLETED one has its result: neither the
\* registry nor a TaskResult sent to a client shows a terminal status with
\* the other fields of the transition still missing.
C35_TerminalFieldsWritten ==
    /\ \A t \in DOMAIN TASKS : FullyEnded(TASKS[t])
    /\ FullyEnded(stream.emitted)

\* C36: while a run of the daily tasks waits for a task it created, the slot
\* of that phase holds the id of that task, so that stop_current_tasks
\* reaches it; also when the run of the cron trigger and the run of a run-now
\* request overlap.
C36_SlotHoldsAwaited ==
    \A id \in Composite :
       /\ job[id].pc = "wait1" =>
             task_scheduler.current_analysis_task_id = job[id].analysis_task_id
       /\ job[id].pc = "wait2" =>
             task_scheduler.current_news_task_id = job[id].news_task_id

\* C37: a run of the daily tasks whose analysis task was cancelled through
\* stop_current_tasks and has ended CANCELLED creates no news task and
\* executes no signals.
C37_CancelStopsRun ==
    \A id \in Composite :
       LET a == job[id].analysis_task_id IN
       (/\ a # NoTask
        /\ Registered(a)
        /\ stop_event[a]
        /\ TASKS[a].status = CANCELLED) =>
           /\ job[id].news_task_id = NoTask
           /\ job[id].pc \notin {"creating2", "assign2", "wait2", "phase3",
                                  "execute"}

\* C38: the live-status stream only reads the shared state: no step of
\* event_generator, for a task id that is registered or not, adds, changes or
\* lowers an entry of the task registry, of the versions or of the stop
\* events, whatever the worker of the task does meanwhile.
C38_StreamOnlyReads ==
    [][stream' # stream =>
          UNCHANGED <<TASKS, TASK_VERSIONS, TASK_STOP_EVENTS, stop_event>>]_vars

\* C39: the progress of an analysis task never decreases from one write to
\* the next and stays between 0.0 and 1.0 (here in percent, between 0 and
\* 100), from the task's start to its terminal status.
C39_ProgressMonotone ==
    [][\A t \in DOMAIN TASKS :
          W(t).kind = "analysis" =>
             /\ TASKS'[t].progress >= TASKS[t].progress
             /\ TASKS'[t].progress \in 0..100]_vars

====
